---- MODULE Spec2Model ----
(***************************************************************************)
(* The booking API service of server1.js: an Express application whose     *)
(* handlers validate a JSON body, issue one parameterized SQL statement    *)
(* through a pg Pool and map the result to an HTTP response.               *)
(*                                                                         *)
(* A handler that awaits pool.query is split at the await: one action is   *)
(* its synchronous part (validation, sending the statement), the other is  *)
(* the store executing the statement atomically and the handler resuming   *)
(* with the result to send the response.  Several requests can be in       *)
(* flight at once, so the statements of different requests interleave.     *)
(***************************************************************************)
EXTENDS Integers, Sequences, FiniteSets, TLC

VARIABLES
    bookings4,       \* table bookings4: the set of its rows
    bookings4Seq,    \* last id the store generated for bookings4
    testimonials,    \* table testimonials: the set of its rows
    testimonialsSeq, \* last id the store generated for testimonials
    now,             \* the store's clock, read by NOW(); it advances with every insert
    conn,            \* the requests in flight, one per connection
    resp,            \* the response the last step sent (NoResponse when it sent none)
    okDeletes,       \* history: per booking id, the 200 responses of DELETE /bookings4/:id
    serverUp         \* the Node process is running

vars == <<bookings4, bookings4Seq, testimonials, testimonialsSeq, now, conn, resp, okDeletes,
          serverUp>>

\* what only the store's statements change
store == <<bookings4, bookings4Seq, testimonials, testimonialsSeq, now>>

(***************************************************************************)
(* Bounds of the model.                                                    *)
(***************************************************************************)
NumConns == 2          \* connections that can carry a request at once
MaxBookings == 2       \* booking rows ever inserted
MaxTestimonials == 1   \* testimonial rows ever inserted

Conns == 1..NumConns

(***************************************************************************)
(* JavaScript values of a JSON body.  A number is the rational n/d.        *)
(***************************************************************************)
Undefined == [t |-> "undefined"]
Str(s) == [t |-> "string", s |-> s]
Num(n) == [t |-> "number", n |-> n, d |-> 1]
Half(n) == [t |-> "number", n |-> n, d |-> 2]
Bool(b) == [t |-> "boolean", b |-> b]

\* JavaScript's !v
Not(v) ==
    CASE v.t = "undefined" -> TRUE
      [] v.t = "string" -> v.s = ""
      [] v.t = "number" -> v.n = 0
      [] v.t = "boolean" -> ~v.b

\* JavaScript's v < k and v > k for a number v and an integer literal k
Lt(v, k) == v.t = "number" /\ v.n < k * v.d
Gt(v, k) == v.t = "number" /\ v.n > k * v.d

IsInteger(v) == v.t = "number" /\ v.n % v.d = 0

(***************************************************************************)
(* Request bodies.                                                         *)
(***************************************************************************)
BookingFields == {"service", "duration", "price", "name", "phone", "datetime"}

Massage ==
    [service |-> Str("Massage"), duration |-> Str("60m"), price |-> Num(50),
     name |-> Str("Ana"), phone |-> Str("555-1234"),
     datetime |-> Str("2025-01-01T10:00:00Z")]

Facial ==
    [service |-> Str("Facial"), duration |-> Num(90), price |-> Half(91),
     name |-> Str("Bo"), phone |-> Str("555-9876"),
     datetime |-> Str("2025-02-01T09:00:00Z")]

BookingBodies ==
    {Massage, Facial}
    \cup {[Massage EXCEPT ![f] = Undefined] : f \in BookingFields}
    \cup {[Massage EXCEPT !.price = Num(0)], [Massage EXCEPT !.service = Str("")]}

InitiateOk == [amount |-> Str("$50"), serviceName |-> Str("Massage"), bookingId |-> Num(1)]

InitiateBodies ==
    {InitiateOk, [InitiateOk EXCEPT !.amount = Num(0)]}
    \cup {[InitiateOk EXCEPT ![f] = Undefined] : f \in {"amount", "serviceName", "bookingId"}}

ConfirmBodies ==
    {[bookingId |-> Undefined], [bookingId |-> Num(0)]}
    \cup {[bookingId |-> Num(i)] : i \in 1..MaxBookings}

Review ==
    [reviewerName |-> Str("Ana"), reviewerEmail |-> Str("ana@example.com"),
     reviewTitle |-> Undefined, reviewText |-> Str("Great"),
     rating |-> Num(5), genuineOpinion |-> Bool(TRUE)]

Ratings == {Undefined, Num(-1), Num(0), Num(1), Half(5), Num(5), Num(6)}

TestimonialBodies ==
    {[Review EXCEPT !.rating = r] : r \in Ratings}
    \cup {[Review EXCEPT !.genuineOpinion = g] : g \in {Undefined, Bool(FALSE)}}
    \cup {[Review EXCEPT !.reviewerName = Undefined], [Review EXCEPT !.reviewerEmail = Str("")],
          [Review EXCEPT !.reviewText = Undefined]}

\* ids a path parameter :id can name
BookingIds == 1..MaxBookings
TestimonialIds == 1..MaxTestimonials

\* the bodies offered where validation is not the subject: the valid ones and
\* one that fails validation
SomeBookingBodies == {Massage, Facial, [Massage EXCEPT !.price = Num(0)]}
SomeInitiateBodies == {InitiateOk, [InitiateOk EXCEPT !.amount = Num(0)]}
SomeTestimonialBodies == {Review, [Review EXCEPT !.rating = Num(6)]}

(***************************************************************************)
(* Connections and responses.                                              *)
(***************************************************************************)
Idle == [pc |-> "idle"]
NoResponse == [req |-> [route |-> "none"], status |-> 0, body |-> [none |-> TRUE],
               stmts |-> 0, err |-> FALSE]

Free(c) == serverUp /\ conn[c] = Idle

\* res.status(status).json(body): the response ends the request.  stmts is the
\* number of pool.query calls the handler made, err whether the store failed.
Send(c, req, status, body, stmts, err) ==
    /\ resp' = [req |-> req, status |-> status, body |-> body, stmts |-> stmts, err |-> err]
    /\ conn' = [conn EXCEPT ![c] = Idle]

\* await pool.query(...): the statement is sent and the handler is suspended
Query(c, req) ==
    /\ conn' = [conn EXCEPT ![c] = [pc |-> "query", req |-> req, stmts |-> 1]]
    /\ resp' = NoResponse

Awaiting(c, route) == conn[c].pc = "query" /\ conn[c].req.route = route

\* the handler resumes after the await and responds; a process that has ended
\* resumes nothing, and the request is never answered
Resume(c, status, body, err) ==
    IF serverUp
    THEN Send(c, conn[c].req, status, body, conn[c].stmts, err)
    ELSE /\ conn' = [conn EXCEPT ![c] = Idle]
         /\ resp' = NoResponse

\* the sequences that list the rows of a table by key, greatest first
OrderDesc(table, key) ==
    {s \in [1..Cardinality(table) -> table] :
        /\ \A i, j \in DOMAIN s : i # j => s[i] # s[j]
        /\ \A i, j \in DOMAIN s : i < j => key[s[i]] >= key[s[j]]}

\* the instant a datetime value denotes, in days since 2025-01-01
Epoch(v) == IF v = Str("2025-02-01T09:00:00Z") THEN 31 ELSE 0

\* the table after DELETE FROM table WHERE id = $1
DeleteOthers(table, id) == {r \in table : r.id = id}
DeleteNothing(table, id) == table
DeleteWhere(table, id) == {r \in table : r.id # id}

\* the rows of a table WHERE id = $1
MatchingAny(table, id) == table
Matching(table, id) == {r \in table : r.id = id}

\* the id the store generates for a new row of a table whose last id was seq
NextIdReused(seq) == IF seq = 0 THEN 1 ELSE seq
NextId(seq) == seq + 1

Init ==
    /\ bookings4 = {}
    /\ bookings4Seq = 0
    /\ testimonials = {}
    /\ testimonialsSeq = 0
    /\ now = 0
    /\ conn = [c \in Conns |-> Idle]
    /\ resp = NoResponse
    /\ okDeletes = [id \in BookingIds |-> 0]
    /\ serverUp = TRUE

(***************************************************************************)
(* GET /bookings4                                                          *)
(***************************************************************************)
GetBookings(c) ==
    /\ Free(c)
    /\ Query(c, [route |-> "GET /bookings4"])
    /\ UNCHANGED <<store, okDeletes, serverUp>>

GetBookingsDone(c) ==
    /\ Awaiting(c, "GET /bookings4")
    /\ \/ \E rows \in OrderDesc(bookings4, [r \in bookings4 |-> Epoch(r.datetime)]) :
             Resume(c, 200, [rows |-> rows], FALSE)
       \/ Resume(c, 500, [error |-> "Failed to retrieve bookings from the database."], TRUE)
    /\ UNCHANGED <<store, okDeletes, serverUp>>

(***************************************************************************)
(* POST /bookings4                                                         *)
(***************************************************************************)
BookingInvalidNoPrice(b) ==
    Not(b.service) \/ Not(b.duration) \/ Not(b.name) \/ Not(b.phone) \/ Not(b.datetime)
BookingInvalid(b) ==
    Not(b.service) \/ Not(b.duration) \/ Not(b.price) \/ Not(b.name) \/ Not(b.phone)
    \/ Not(b.datetime)

PostBookings(c, body) ==
    /\ Free(c)
    /\ LET req == [route |-> "POST /bookings4", body |-> body] IN
       IF BookingInvalid(body)
       THEN Send(c, req, 400, [error |-> "All booking fields are required."], 0, FALSE)
       ELSE Query(c, req)
    /\ UNCHANGED <<store, okDeletes, serverUp>>

\* the row INSERT INTO bookings4(...) VALUES($1..$6) stores: payment_status and
\* booking_time take the defaults of the table
BookingRowSwapped(id, b, time) ==
    [id |-> id, service |-> b.service, duration |-> b.duration, price |-> b.price,
     name |-> b.phone, phone |-> b.name, datetime |-> b.datetime,
     payment_status |-> "pending", booking_time |-> time]
BookingRow(id, b, time) ==
    [id |-> id, service |-> b.service, duration |-> b.duration, price |-> b.price,
     name |-> b.name, phone |-> b.phone, datetime |-> b.datetime,
     payment_status |-> "pending", booking_time |-> time]

PostBookingsDone(c) ==
    /\ Awaiting(c, "POST /bookings4")
    /\ \/ /\ bookings4Seq < MaxBookings
          /\ LET id == NextId(bookings4Seq)
                 row == BookingRow(id, conn[c].req.body, now) IN
             /\ bookings4Seq' = id
             /\ bookings4' = bookings4 \cup {row}
             /\ now' = now + 1
             /\ Resume(c, 201, row, FALSE)
       \/ /\ UNCHANGED <<bookings4, bookings4Seq, now>>
          /\ Resume(c, 500, [error |-> "Failed to add booking to the database."], TRUE)
    /\ UNCHANGED <<testimonials, testimonialsSeq, okDeletes, serverUp>>

(***************************************************************************)
(* DELETE /bookings4/:id                                                   *)
(***************************************************************************)
DeleteBookings(c, id) ==
    /\ Free(c)
    /\ Query(c, [route |-> "DELETE /bookings4/:id", id |-> id])
    /\ UNCHANGED <<store, okDeletes, serverUp>>

DeleteBookingsDone(c) ==
    /\ Awaiting(c, "DELETE /bookings4/:id")
    /\ LET id == conn[c].req.id
           rowCount == Cardinality(Matching(bookings4, id)) IN
       \/ /\ bookings4' = DeleteWhere(bookings4, id)
          /\ IF rowCount = 0
             THEN /\ Resume(c, 404, [error |-> "Booking with ID ${id} not found.", id |-> id],
                            FALSE)
                  /\ UNCHANGED okDeletes
             ELSE /\ Resume(c, 200, [message |-> "Booking with ID ${id} deleted successfully.",
                                     id |-> id], FALSE)
                  /\ okDeletes' = IF serverUp THEN [okDeletes EXCEPT ![id] = @ + 1]
                                  ELSE okDeletes
       \/ /\ UNCHANGED <<bookings4, okDeletes>>
          /\ Resume(c, 500, [error |-> "Failed to delete booking from the database."], TRUE)
    /\ UNCHANGED <<bookings4Seq, testimonials, testimonialsSeq, now, serverUp>>

(***************************************************************************)
(* POST /api/payments/initiate                                             *)
(***************************************************************************)
\* the identifiers in scope inside the setTimeout callback
Declared ==
    {"express", "Pool", "cors", "app", "PORT", "pool", "req", "res",
     "amount", "serviceName", "bookingId"}

\* the identifiers the callback evaluates to build its response
CallbackRefs == {"res", "simulatedQrCodeUrl", "transactionId"}

InitiateInvalid(b) == Not(b.amount) \/ Not(b.serviceName) \/ Not(b.bookingId)

PostInitiate(c, body) ==
    /\ Free(c)
    /\ LET req == [route |-> "POST /api/payments/initiate", body |-> body] IN
       IF InitiateInvalid(body)
       THEN Send(c, req, 400, [error |-> "Payment amount, service name, and booking ID are required to initiate payment."], 0, FALSE)
       ELSE /\ conn' = [conn EXCEPT ![c] = [pc |-> "timer", req |-> req, stmts |-> 0]]
            /\ resp' = NoResponse
    /\ UNCHANGED <<store, okDeletes, serverUp>>

\* the callback of setTimeout(..., 1000).  Evaluating an identifier that is not
\* declared throws a ReferenceError; nothing catches it in a timer callback, so
\* the process ends.
InitiateTimeout(c) ==
    /\ serverUp
    /\ conn[c].pc = "timer"
    /\ IF CallbackRefs \subseteq Declared
       THEN /\ Send(c, conn[c].req, 200,
                    [message |-> "Payment initiation successful (simulated). Scan QR to complete.",
                     qrCodeUrl |-> "simulatedQrCodeUrl", transactionId |-> "transactionId",
                     status |-> "pending"], conn[c].stmts, FALSE)
            /\ serverUp' = serverUp
       ELSE /\ conn' = [conn EXCEPT ![c].pc = "thrown"]
            /\ serverUp' = FALSE
            /\ resp' = NoResponse
    /\ UNCHANGED <<store, okDeletes>>

(***************************************************************************)
(* POST /api/payments/confirm                                              *)
(***************************************************************************)
PostConfirm(c, body) ==
    /\ Free(c)
    /\ LET req == [route |-> "POST /api/payments/confirm", body |-> body] IN
       IF Not(body.bookingId)
       THEN Send(c, req, 400, [error |-> "Booking ID is required to confirm payment."], 0, FALSE)
       ELSE Query(c, req)
    /\ UNCHANGED <<store, okDeletes, serverUp>>

\* the id a bookingId parameter denotes in WHERE id = $2 (no row has id 0)
IdOf(v) == IF IsInteger(v) THEN v.n \div v.d ELSE 0

\* the table after UPDATE bookings4 SET payment_status = $1 WHERE id = $2
SetPaymentStatusToggled(table, status, id) ==
    {IF r.id = id
     THEN [r EXCEPT !.payment_status = IF @ = status THEN "pending" ELSE status]
     ELSE r : r \in table}
SetPaymentStatusEverywhere(table, status, id) ==
    IF \E r \in table : r.id = id
    THEN {[r EXCEPT !.payment_status = status] : r \in table}
    ELSE table
SetPaymentStatus(table, status, id) ==
    {IF r.id = id THEN [r EXCEPT !.payment_status = status] ELSE r : r \in table}

PostConfirmDone(c) ==
    /\ Awaiting(c, "POST /api/payments/confirm")
    /\ LET bookingId == conn[c].req.body.bookingId
           rowCount == Cardinality(Matching(bookings4, IdOf(bookingId))) IN
       \/ /\ bookings4' = SetPaymentStatus(bookings4, "completed", IdOf(bookingId))
          /\ IF rowCount = 0
             THEN Resume(c, 404, [error |-> "Booking with ID ${bookingId} not found for payment confirmation.",
                                  id |-> bookingId], FALSE)
             ELSE Resume(c, 200, [message |-> "Payment for booking ID ${bookingId} confirmed successfully.",
                                  id |-> bookingId], FALSE)
       \/ /\ UNCHANGED bookings4
          /\ Resume(c, 500, [error |-> "Failed to update payment status in the database."], TRUE)
    /\ UNCHANGED <<bookings4Seq, testimonials, testimonialsSeq, now, okDeletes, serverUp>>

(***************************************************************************)
(* POST /api/testimonials                                                  *)
(***************************************************************************)
TestimonialMissing(b) ==
    Not(b.reviewerName) \/ Not(b.reviewerEmail) \/ Not(b.reviewText) \/ Not(b.rating)
    \/ b.genuineOpinion = Undefined

RatingOutOfRange(rating) == Lt(rating, 1) \/ Gt(rating, 5)

PostTestimonials(c, body) ==
    /\ Free(c)
    /\ LET req == [route |-> "POST /api/testimonials", body |-> body] IN
       IF TestimonialMissing(body)
       THEN Send(c, req, 400, [error |-> "All testimonial fields (except title) are required."],
                 0, FALSE)
       ELSE IF RatingOutOfRange(body.rating)
       THEN Send(c, req, 400, [error |-> "Rating must be between 1 and 5."], 0, FALSE)
       ELSE Query(c, req)
    /\ UNCHANGED <<store, okDeletes, serverUp>>

\* the row INSERT INTO testimonials(...) VALUES($1..$6, NOW()) stores
TestimonialRow(id, b, time) ==
    [id |-> id, reviewer_name |-> b.reviewerName, reviewer_email |-> b.reviewerEmail,
     review_title |-> b.reviewTitle, review_text |-> b.reviewText, rating |-> b.rating,
     genuine_opinion |-> b.genuineOpinion, created_at |-> time]

PostTestimonialsDone(c) ==
    /\ Awaiting(c, "POST /api/testimonials")
    /\ \/ /\ testimonialsSeq < MaxTestimonials
          /\ LET id == NextId(testimonialsSeq)
                 row == TestimonialRow(id, conn[c].req.body, now) IN
             /\ testimonialsSeq' = id
             /\ testimonials' = testimonials \cup {row}
             /\ now' = now + 1
             /\ Resume(c, 201, row, FALSE)
       \/ /\ UNCHANGED <<testimonials, testimonialsSeq, now>>
          /\ Resume(c, 500, [error |-> "Failed to add testimonial to the database."], TRUE)
    /\ UNCHANGED <<bookings4, bookings4Seq, okDeletes, serverUp>>

(***************************************************************************)
(* GET /api/testimonials                                                   *)
(***************************************************************************)
GetTestimonials(c) ==
    /\ Free(c)
    /\ Query(c, [route |-> "GET /api/testimonials"])
    /\ UNCHANGED <<store, okDeletes, serverUp>>

GetTestimonialsDone(c) ==
    /\ Awaiting(c, "GET /api/testimonials")
    /\ \/ \E rows \in OrderDesc(testimonials, [r \in testimonials |-> r.created_at]) :
             Resume(c, 200, [rows |-> rows], FALSE)
       \/ Resume(c, 500, [error |-> "Failed to retrieve testimonials from the database."], TRUE)
    /\ UNCHANGED <<store, okDeletes, serverUp>>

(***************************************************************************)
(* DELETE /api/testimonials/:id                                            *)
(***************************************************************************)
DeleteTestimonials(c, id) ==
    /\ Free(c)
    /\ Query(c, [route |-> "DELETE /api/testimonials/:id", id |-> id])
    /\ UNCHANGED <<store, okDeletes, serverUp>>

DeleteTestimonialsDone(c) ==
    /\ Awaiting(c, "DELETE /api/testimonials/:id")
    /\ LET id == conn[c].req.id
           rowCount == Cardinality(Matching(testimonials, id)) IN
       \/ /\ testimonials' = DeleteWhere(testimonials, id)
          /\ IF rowCount = 0
             THEN Resume(c, 404, [error |-> "Testimonial with ID ${id} not found.", id |-> id],
                         FALSE)
             ELSE Resume(c, 200, [message |-> "Testimonial with ID ${id} deleted successfully.",
                                  id |-> id], FALSE)
       \/ /\ UNCHANGED testimonials
          /\ Resume(c, 500, [error |-> "Failed to delete testimonial from the database: ${err.message}"],
                    TRUE)
    /\ UNCHANGED <<bookings4, bookings4Seq, testimonialsSeq, now, okDeletes, serverUp>>

(***************************************************************************)
(* Specifications.  Spec is the whole service.  The handlers of bookings   *)
(* and payments touch only bookings4 and those of testimonials only        *)
(* testimonials, so BookingSpec and TestimonialSpec take each group alone; *)
(* ValidationSpec offers every body of the input sets to the four routes   *)
(* that validate one.                                                      *)
(***************************************************************************)
Next ==
    \/ \E c \in Conns : GetBookings(c)
    \/ \E c \in Conns : GetBookingsDone(c)
    \/ \E c \in Conns, body \in SomeBookingBodies : PostBookings(c, body)
    \/ \E c \in Conns : PostBookingsDone(c)
    \/ \E c \in Conns, id \in BookingIds : DeleteBookings(c, id)
    \/ \E c \in Conns : DeleteBookingsDone(c)
    \/ \E c \in Conns, body \in SomeInitiateBodies : PostInitiate(c, body)
    \/ \E c \in Conns : InitiateTimeout(c)
    \/ \E c \in Conns, body \in ConfirmBodies : PostConfirm(c, body)
    \/ \E c \in Conns : PostConfirmDone(c)
    \/ \E c \in Conns, body \in SomeTestimonialBodies : PostTestimonials(c, body)
    \/ \E c \in Conns : PostTestimonialsDone(c)
    \/ \E c \in Conns : GetTestimonials(c)
    \/ \E c \in Conns : GetTestimonialsDone(c)
    \/ \E c \in Conns, id \in TestimonialIds : DeleteTestimonials(c, id)
    \/ \E c \in Conns : DeleteTestimonialsDone(c)

Spec == Init /\ [][Next]_vars

BookingNext ==
    \/ \E c \in Conns : GetBookings(c)
    \/ \E c \in Conns : GetBookingsDone(c)
    \/ \E c \in Conns, body \in SomeBookingBodies : PostBookings(c, body)
    \/ \E c \in Conns : PostBookingsDone(c)
    \/ \E c \in Conns, id \in BookingIds : DeleteBookings(c, id)
    \/ \E c \in Conns : DeleteBookingsDone(c)
    \/ \E c \in Conns, body \in SomeInitiateBodies : PostInitiate(c, body)
    \/ \E c \in Conns : InitiateTimeout(c)
    \/ \E c \in Conns, body \in ConfirmBodies : PostConfirm(c, body)
    \/ \E c \in Conns : PostConfirmDone(c)

BookingSpec == Init /\ [][BookingNext]_vars

TestimonialNext ==
    \/ \E c \in Conns, body \in TestimonialBodies : PostTestimonials(c, body)
    \/ \E c \in Conns : PostTestimonialsDone(c)
    \/ \E c \in Conns : GetTestimonials(c)
    \/ \E c \in Conns : GetTestimonialsDone(c)
    \/ \E c \in Conns, id \in TestimonialIds : DeleteTestimonials(c, id)
    \/ \E c \in Conns : DeleteTestimonialsDone(c)

TestimonialSpec == Init /\ [][TestimonialNext]_vars

ValidationNext ==
    \/ \E c \in Conns, body \in BookingBodies : PostBookings(c, body)
    \/ \E c \in Conns : PostBookingsDone(c)
    \/ \E c \in Conns, body \in InitiateBodies : PostInitiate(c, body)
    \/ \E c \in Conns : InitiateTimeout(c)
    \/ \E c \in Conns, body \in ConfirmBodies : PostConfirm(c, body)
    \/ \E c \in Conns : PostConfirmDone(c)
    \/ \E c \in Conns, body \in TestimonialBodies : PostTestimonials(c, body)
    \/ \E c \in Conns : PostTestimonialsDone(c)

ValidationSpec == Init /\ [][ValidationNext]_vars

(***************************************************************************)
(* Properties.                                                             *)
(***************************************************************************)
Ids(table) == {r.id : r \in table}

Answered(route) == resp.req.route = route

\* the step is the store executing the statement of a request of this route
\* that names this id, and the handler resuming
StepOf(route, id) ==
    \E c \in Conns :
        /\ Awaiting(c, route)
        /\ conn'[c] = Idle
        /\ id = IF route = "POST /api/payments/confirm"
                THEN IdOf(conn[c].req.body.bookingId) ELSE conn[c].req.id

\* C1: a booking's payment_status changes only from "pending" to "completed",
\* never back, and only in a step of confirm payment that names the booking.
C1_StatusOnlyForward ==
    [][\A r \in bookings4, r2 \in bookings4' :
          (r.id = r2.id /\ r2.payment_status # r.payment_status)
          => /\ r.payment_status = "pending"
             /\ r2.payment_status = "completed"
             /\ StepOf("POST /api/payments/confirm", r.id)]_vars

C1_Witness ==
    /\ Answered("POST /api/payments/confirm")
    /\ resp.status = 200
    /\ \E r \in bookings4 : r.id = IdOf(resp.req.body.bookingId) /\ r.payment_status = "completed"
    /\ \E r \in bookings4 : r.payment_status = "pending"

UniqueBookingIds == \A r1, r2 \in bookings4 : r1.id = r2.id => r1 = r2

ListIsTable ==
    (Answered("GET /bookings4") /\ resp.status = 200)
    => /\ \A r \in bookings4 :
             Cardinality({i \in DOMAIN resp.body.rows : resp.body.rows[i] = r}) = 1
       /\ \A i \in DOMAIN resp.body.rows : resp.body.rows[i] \in bookings4

InsertAddsOne ==
    (resp'.req.route = "POST /bookings4" /\ resp'.status = 201)
    => /\ bookings4 \subseteq bookings4'
       /\ Cardinality(bookings4') = Cardinality(bookings4) + 1
       /\ resp'.body \in bookings4' \ bookings4

C3_ListedExactlyOnce == [](UniqueBookingIds /\ ListIsTable) /\ [][InsertAddsOne]_vars

C3_Witness ==
    /\ Answered("GET /bookings4")
    /\ resp.status = 200
    /\ Len(resp.body.rows) = 2
    /\ resp.body.rows[1].datetime # resp.body.rows[2].datetime

\* C4: DELETE /bookings4/:id and DELETE /api/testimonials/:id, when the store
\* executes the delete: an id that matches no row is answered 404 and the table
\* is unchanged; an existing id is answered 200 and exactly the rows of that id
\* leave the table.  An id that has left a table never returns to it, so a
\* repeated delete finds no row, and a list shows only rows the table holds.
DeleteSemantics(route, table, tableAfter) ==
    \A c \in Conns :
        (Awaiting(c, route) /\ conn'[c] = Idle /\ serverUp /\ ~resp'.err)
        => LET id == conn[c].req.id IN
           IF id \in Ids(table)
           THEN /\ resp'.status = 200
                /\ tableAfter \subseteq table
                /\ Ids(table \ tableAfter) = {id}
                /\ id \notin Ids(tableAfter)
           ELSE /\ resp'.status = 404
                /\ tableAfter = table

NeverReappears(table, tableAfter, seq) ==
    \A id \in 1..seq : id \notin Ids(table) => id \notin Ids(tableAfter)

ListedRowsExist ==
    /\ (Answered("GET /bookings4") /\ resp.status = 200)
       => \A i \in DOMAIN resp.body.rows : resp.body.rows[i] \in bookings4
    /\ (Answered("GET /api/testimonials") /\ resp.status = 200)
       => \A i \in DOMAIN resp.body.rows : resp.body.rows[i] \in testimonials

C4_DeleteById ==
    /\ []ListedRowsExist
    /\ [][/\ DeleteSemantics("DELETE /bookings4/:id", bookings4, bookings4')
          /\ DeleteSemantics("DELETE /api/testimonials/:id", testimonials, testimonials')
          /\ NeverReappears(bookings4, bookings4', bookings4Seq)
          /\ NeverReappears(testimonials, testimonials', testimonialsSeq)]_vars

\* a repeated delete: the id was generated, has left the table, and is answered 404
C4_Witness ==
    /\ Answered("DELETE /bookings4/:id")
    /\ resp.status = 404
    /\ resp.req.id <= bookings4Seq
    /\ bookings4 # {}
    /\ testimonialsSeq = 1
    /\ testimonials = {}

\* C5: confirm payment with a truthy bookingId, when the store executes the
\* update: if a row has that id the answer is 200, that row's payment_status
\* is "completed" whatever it was, and every other row is as before; if the
\* row was already "completed" the table is unchanged (a second confirm is
\* idempotent); if no row has that id the answer is 404 and the table is
\* unchanged.
C5_ConfirmSemantics ==
    [][\A c \in Conns :
          (/\ Awaiting(c, "POST /api/payments/confirm")
           /\ conn'[c] = Idle
           /\ serverUp
           /\ ~resp'.err)
          => LET id == IdOf(conn[c].req.body.bookingId) IN
             IF id \in Ids(bookings4)
             THEN /\ resp'.status = 200
                  /\ Ids(bookings4') = Ids(bookings4)
                  /\ \A r \in bookings4' : r.id = id => r.payment_status = "completed"
                  /\ {r \in bookings4' : r.id # id} = {r \in bookings4 : r.id # id}
                  /\ (\A r \in bookings4 : r.id = id => r.payment_status = "completed")
                     => bookings4' = bookings4
             ELSE /\ resp'.status = 404
                  /\ bookings4' = bookings4]_vars

\* a confirm has been answered 200 and a second confirm of the same, now
\* completed, booking is awaiting the store, next to a pending booking
C5_Witness ==
    /\ Answered("POST /api/payments/confirm")
    /\ resp.status = 200
    /\ \E c \in Conns :
          /\ Awaiting(c, "POST /api/payments/confirm")
          /\ conn[c].req.body = resp.req.body
    /\ \E r \in bookings4 : r.id = IdOf(resp.req.body.bookingId) /\ r.payment_status = "completed"
    /\ \E r \in bookings4 : r.id # IdOf(resp.req.body.bookingId) /\ r.payment_status = "pending"

\* C9: from one state to the next a booking row keeps every field but
\* payment_status, which changes only in a confirm step naming its id; a
\* testimonial row keeps every field; and a row leaves its table only in a
\* delete step of that table naming its id.
BookingFrame ==
    \A r \in bookings4 :
        LET after == {r2 \in bookings4' : r2.id = r.id} IN
        IF after = {}
        THEN StepOf("DELETE /bookings4/:id", r.id)
        ELSE \A r2 \in after :
                /\ [r2 EXCEPT !.payment_status = r.payment_status] = r
                /\ r2 # r => StepOf("POST /api/payments/confirm", r.id)

TestimonialFrame ==
    \A r \in testimonials :
        LET after == {r2 \in testimonials' : r2.id = r.id} IN
        IF after = {}
        THEN StepOf("DELETE /api/testimonials/:id", r.id)
        ELSE after = {r}

C9_Frame == [][BookingFrame /\ TestimonialFrame]_vars

\* one booking was deleted, the other confirmed, and a testimonial is stored
C9_Witness ==
    /\ bookings4Seq = 2
    /\ Cardinality(bookings4) = 1
    /\ \A r \in bookings4 : r.payment_status = "completed"
    /\ testimonials # {}

\* C10: with every statement atomic, at most one DELETE /bookings4/:id of an id
\* is answered 200, and while the process runs an id that has left the table
\* has had exactly one; a delete or a confirm whose statement runs while the
\* row is there is answered 200, one whose statement runs after the row has
\* gone is answered 404; after a delete the booking is absent and it never
\* reappears.
OneDeleteWins ==
    \A id \in BookingIds :
        /\ okDeletes[id] <= 1
        /\ okDeletes[id] = 1 => id \notin Ids(bookings4)
        /\ (serverUp /\ id <= bookings4Seq /\ id \notin Ids(bookings4)) => okDeletes[id] = 1

RaceOutcome ==
    \A c \in Conns :
        (/\ conn[c].pc = "query"
         /\ conn[c].req.route \in {"DELETE /bookings4/:id", "POST /api/payments/confirm"}
         /\ conn'[c] = Idle
         /\ serverUp
         /\ ~resp'.err)
        => LET id == IF conn[c].req.route = "DELETE /bookings4/:id"
                     THEN conn[c].req.id ELSE IdOf(conn[c].req.body.bookingId) IN
           /\ resp'.status = IF id \in Ids(bookings4) THEN 200 ELSE 404
           /\ conn[c].req.route = "DELETE /bookings4/:id" => id \notin Ids(bookings4')

C10_Races ==
    /\ []OneDeleteWins
    /\ [][RaceOutcome /\ NeverReappears(bookings4, bookings4', bookings4Seq)]_vars

\* of two concurrent deletes of one id, one has been answered 200 and the
\* other still awaits the store
C10_Witness ==
    /\ Answered("DELETE /bookings4/:id")
    /\ resp.status = 200
    /\ okDeletes[resp.req.id] = 1
    /\ \E c \in Conns : Awaiting(c, "DELETE /bookings4/:id") /\ conn[c].req.id = resp.req.id

\* a rating that is an integer in [1,5]
IntegerRating(v) == v.t = "number" /\ v.n % v.d = 0 /\ v.d <= v.n /\ v.n <= 5 * v.d

\* C6: a create-testimonial request with every required field present is
\* answered 400 without a store statement unless its rating is an integer in
\* [1,5]; only such ratings are answered 201, and every stored testimonial has
\* one.
C6_RatingIntegerInRange ==
    /\ (/\ Answered("POST /api/testimonials")
        /\ \A f \in {"reviewerName", "reviewerEmail", "reviewText", "rating", "genuineOpinion"} :
              resp.req.body[f] # Undefined
        /\ ~IntegerRating(resp.req.body.rating))
       => (resp.status = 400 /\ resp.stmts = 0)
    /\ (Answered("POST /api/testimonials") /\ resp.status = 201)
       => IntegerRating(resp.req.body.rating)
    /\ \A r \in testimonials : IntegerRating(r.rating)

\* C7: an initiate-payment request whose three fields are truthy is answered
\* 200 with status "pending" and no store statement once its delay has
\* elapsed: the timer callback does not throw, and the process keeps running.
C7_InitiateAnswered ==
    /\ serverUp
    /\ \A c \in Conns : conn[c].pc # "thrown"
    /\ (/\ Answered("POST /api/payments/initiate")
        /\ \A f \in {"amount", "serviceName", "bookingId"} : ~Not(resp.req.body[f]))
       => (resp.status = 200 /\ resp.body.status = "pending" /\ resp.stmts = 0)

\* the routes that validate a body, and the fields each requires
Validated ==
    {"POST /bookings4", "POST /api/payments/initiate", "POST /api/payments/confirm",
     "POST /api/testimonials"}

Required(route) ==
    CASE route = "POST /bookings4" -> BookingFields
      [] route = "POST /api/payments/initiate" -> {"amount", "serviceName", "bookingId"}
      [] route = "POST /api/payments/confirm" -> {"bookingId"}
      [] route = "POST /api/testimonials" ->
            {"reviewerName", "reviewerEmail", "reviewText", "rating", "genuineOpinion"}

\* C8 as stated: on the four validated routes a request with a missing or falsy
\* required field is answered 400 with no store statement, and every request
\* that passes validation issues exactly one store statement.
C8_AsStated ==
    /\ (resp.req.route \in Validated /\ \E f \in Required(resp.req.route) : Not(resp.req.body[f]))
       => (resp.status = 400 /\ resp.stmts = 0)
    /\ (resp.req.route \in Validated /\ resp.status # 400) => resp.stmts = 1
    /\ \A c \in Conns : conn[c] # Idle => conn[c].stmts = 1

\* C8, amended: on the four validated routes a request with a missing or falsy
\* required field (for genuineOpinion: a missing one; false is accepted) is
\* answered 400 with no store statement, and the step that answers 400 leaves
\* both tables unchanged; every request that passes validation issues exactly
\* one store statement, except initiate payment, which issues none.
Rejected(req) ==
    \/ \E f \in Required(req.route) \ {"genuineOpinion"} : Not(req.body[f])
    \/ req.route = "POST /api/testimonials" /\ req.body.genuineOpinion = Undefined

StatementsOf(route) == IF route = "POST /api/payments/initiate" THEN 0 ELSE 1

ValidationFirst ==
    /\ (resp.req.route \in Validated /\ Rejected(resp.req))
       => (resp.status = 400 /\ resp.stmts = 0)
    /\ resp.status = 400 => resp.stmts = 0
    /\ (resp.req.route \in Validated /\ resp.status # 400)
       => (~Rejected(resp.req) /\ resp.stmts = StatementsOf(resp.req.route))
    /\ \A c \in Conns :
          conn[c] # Idle
          => (~Rejected(conn[c].req) /\ conn[c].stmts = StatementsOf(conn[c].req.route))

C8_Validation ==
    /\ []ValidationFirst
    /\ [][resp'.status = 400 => UNCHANGED <<bookings4, testimonials>>]_vars

\* a testimonial whose genuineOpinion is false was stored and answered 201
\* after one statement, while an initiate payment that passed validation is
\* in flight having issued none
C8_Witness ==
    /\ Answered("POST /api/testimonials")
    /\ resp.req.body.genuineOpinion = Bool(FALSE)
    /\ resp.status = 201
    /\ resp.stmts = 1
    /\ \E c \in Conns : conn[c].pc = "timer" /\ conn[c].stmts = 0

====
